---- MODULE Spec2Model ----
(***************************************************************************)
(* Model of ChatbotApp (src/Chatbot.py): the conversation context          *)
(* (chat_history_ids), the entry widget, the chat display and the steps of *)
(* send_message.  Text is a sequence of characters, a tensor of shape      *)
(* (1, n) is the sequence of its n token ids.  The tokenizer and the model *)
(* are external: encode/decode map characters to ids and back, generate    *)
(* returns its input followed by any continuation, and each of the three   *)
(* calls may raise.                                                        *)
(***************************************************************************)
EXTENDS Integers, Sequences, FiniteSets

VARIABLES
    max_history_length,  \* self.max_history_length (scaled down from 1024)
    chat_history_ids,    \* self.chat_history_ids: None or a token sequence
    user_input,          \* contents of the Entry widget self.user_input
    chat_display,        \* (sender, message) pairs inserted in self.chat_display
    pc,                  \* position inside send_message, "idle" outside it
    user_msg,            \* local user_msg
    new_input,           \* local new_input
    input_ids,           \* local input_ids
    response,            \* local response
    response_start,      \* local response_start
    bot_response,        \* local bot_response
    error,               \* the exception e in flight, NoError if none
    sends,               \* number of send_message calls so far
    history_before,      \* history variable: chat_history_ids at turn entry
    turn_start           \* history variable: Len(chat_display) at turn entry

vars == <<max_history_length, chat_history_ids, user_input, chat_display, pc,
          user_msg, new_input, input_ids, response, response_start,
          bot_response, error, sends, history_before, turn_start>>

locals == <<user_msg, new_input, input_ids, response, response_start,
            bot_response, error>>

----------------------------------------------------------------------------
(* Bounds *)

MaxBudget == 4     \* max_history_length ranges over 1..MaxBudget
MaxInput == 2      \* longest text typed in the entry
MaxCont == 2       \* longest continuation the generator adds
MaxTurns == 2      \* send_message calls per behaviour

----------------------------------------------------------------------------
(* Text and the tokenizer *)

Space == " "
Chars == {Space, "a"}
eos_token == "<|endoftext|>"
eos_token_id == 0

TextsUpTo(n) == UNION {[1..k -> Chars] : k \in 0..n}

SeqsUpTo(S, n) == UNION {[1..k -> S] : k \in 0..n}

CharId(c) == IF c = eos_token THEN eos_token_id ELSE IF c = Space THEN 1 ELSE 2

IdChar(t) == IF t = eos_token_id THEN eos_token ELSE IF t = 1 THEN Space ELSE "a"

GenTokens == {eos_token_id, CharId("a")}

RECURSIVE LStrip(_)
LStrip(s) == IF s # <<>> /\ Head(s) = Space THEN LStrip(Tail(s)) ELSE s

RECURSIVE RStrip(_)
RStrip(s) == IF s # <<>> /\ s[Len(s)] = Space
             THEN RStrip(SubSeq(s, 1, Len(s) - 1)) ELSE s

(* str.strip() forgotten: the entry text is used as typed *)
StripOmitted(s) == s

Strip(s) == RStrip(LStrip(s))

Encode(text) == [i \in 1..Len(text) |-> CharId(text[i])]

IsNotSpecial(t) == t # eos_token_id

Decode(ids, skip_special_tokens) ==
    LET kept == IF skip_special_tokens THEN SelectSeq(ids, IsNotSpecial) ELSE ids
    IN  [i \in 1..Len(kept) |-> IdChar(kept[i])]

----------------------------------------------------------------------------
(* Python slicing and tensors *)

None == [present |-> FALSE, ids |-> <<>>]
Tensor(s) == [present |-> TRUE, ids |-> s]

PySliceFrom(s, start) ==
    LET from == IF start < 0
                THEN (IF Len(s) + start < 0 THEN 0 ELSE Len(s) + start)
                ELSE (IF start > Len(s) THEN Len(s) ELSE start)
    IN  SubSeq(s, from + 1, Len(s))

(* slice boundary off by one *)
ResponseStartOffByOne(ids) == Len(ids) - 1

ResponseStart(ids) == Len(ids)

ExtractReply(resp, start) == Decode(PySliceFrom(resp, start), TRUE)

(* [:, max_length // 2:] : the minus sign lost, the front is dropped *)
EnforceBudgetDropFront(ids, max_length) ==
    IF Len(ids) > max_length
    THEN PySliceFrom(ids, max_length \div 2)
    ELSE ids

(* [:, -(max_length // 2):] : the division done before the negation *)
EnforceBudgetParenthesised(ids, max_length) ==
    IF Len(ids) > max_length
    THEN PySliceFrom(ids, 0 - (max_length \div 2))
    ELSE ids

(* [:, length - max_length // 2:] : empty when max_length // 2 is 0 *)
EnforceBudgetFromLength(ids, max_length) ==
    IF Len(ids) > max_length
    THEN PySliceFrom(ids, Len(ids) - (max_length \div 2))
    ELSE ids

(* >= in place of > *)
EnforceBudgetAtLimit(ids, max_length) ==
    IF Len(ids) >= max_length
    THEN PySliceFrom(ids, (0 - max_length) \div 2)
    ELSE ids

EnforceBudget(ids, max_length) ==
    IF Len(ids) > max_length
    THEN PySliceFrom(ids, (0 - max_length) \div 2)
    ELSE ids

(* torch.cat with its operands swapped *)
ConcatHistoryReversed(history, new) ==
    IF history.present THEN new \o history.ids ELSE new

ConcatHistory(history, new) ==
    IF history.present THEN history.ids \o new ELSE new

NoError == <<>>

(* the raising call sits outside the try block *)
RaiseUncaught(e) == pc' = "propagated" /\ error' = e

Raise(e) == pc' = "except" /\ error' = e

UpdateChat(sender, message) ==
    chat_display' = Append(chat_display, <<sender, message>>)

----------------------------------------------------------------------------
Init ==
    /\ max_history_length \in 1..MaxBudget
    /\ chat_history_ids = None
    /\ user_input = <<>>
    /\ chat_display = << <<"AI", <<"Hello! How can I help you today?">> >> >>
    /\ pc = "idle"
    /\ user_msg = <<>>
    /\ new_input = <<>>
    /\ input_ids = <<>>
    /\ response = <<>>
    /\ response_start = 0
    /\ bot_response = <<>>
    /\ error = NoError
    /\ sends = 0
    /\ history_before = None
    /\ turn_start = 1

(* The user edits the entry between two calls of send_message. *)
TypeText ==
    /\ pc = "idle"
    /\ sends < MaxTurns
    /\ \E text \in TextsUpTo(MaxInput) :
          /\ text # user_input
          /\ user_input' = text
    /\ UNCHANGED <<max_history_length, chat_history_ids, chat_display, pc,
                   locals, sends, history_before, turn_start>>

(* send_message on an entry that strips to the empty string: return. *)
SendMessageBlank ==
    /\ pc = "idle"
    /\ sends < MaxTurns
    /\ Strip(user_input) = <<>>
    /\ sends' = sends + 1
    /\ UNCHANGED <<max_history_length, chat_history_ids, user_input,
                   chat_display, pc, locals, history_before, turn_start>>

(* send_message up to the try: clear the entry, show the user's message. *)
SendMessageStart ==
    /\ pc = "idle"
    /\ sends < MaxTurns
    /\ Strip(user_input) # <<>>
    /\ sends' = sends + 1
    /\ user_msg' = Strip(user_input)
    /\ user_input' = <<>>
    /\ UpdateChat("You", Strip(user_input))
    /\ new_input' = <<>>
    /\ input_ids' = <<>>
    /\ response' = <<>>
    /\ response_start' = 0
    /\ bot_response' = <<>>
    /\ error' = NoError
    /\ history_before' = chat_history_ids
    /\ turn_start' = Len(chat_display)
    /\ pc' = "encode"
    /\ UNCHANGED <<max_history_length, chat_history_ids>>

(* tokenizer.encode(user_msg + eos_token), then the concatenation. *)
EncodeStep ==
    /\ pc = "encode"
    /\ \/ /\ Raise(<<"encode failed">>)
          /\ UNCHANGED <<new_input, input_ids>>
       \/ /\ new_input' = Encode(Append(user_msg, eos_token))
          /\ input_ids' = ConcatHistory(chat_history_ids,
                                        Encode(Append(user_msg, eos_token)))
          /\ pc' = "generate"
          /\ UNCHANGED error
    /\ UNCHANGED <<max_history_length, chat_history_ids, user_input,
                   chat_display, user_msg, response, response_start,
                   bot_response, sends, history_before, turn_start>>

(* self.chat_history_ids = self.model.generate(...): stored before decode *)
GenerateStepIntoHistory ==
    /\ pc = "generate"
    /\ \/ /\ Raise(<<"generate failed">>)
          /\ UNCHANGED <<response, chat_history_ids>>
       \/ /\ \E cont \in SeqsUpTo(GenTokens, MaxCont) :
                /\ response' = input_ids \o cont
                /\ chat_history_ids' = Tensor(input_ids \o cont)
          /\ pc' = "decode"
          /\ UNCHANGED error
    /\ UNCHANGED <<max_history_length, user_input,
                   chat_display, user_msg, new_input, input_ids,
                   response_start, bot_response, sends, history_before,
                   turn_start>>

(* model.generate(input_ids, ...): the input followed by a continuation. *)
GenerateStep ==
    /\ pc = "generate"
    /\ \/ /\ Raise(<<"generate failed">>)
          /\ UNCHANGED response
       \/ /\ \E cont \in SeqsUpTo(GenTokens, MaxCont) :
                response' = input_ids \o cont
          /\ pc' = "decode"
          /\ UNCHANGED error
    /\ UNCHANGED <<max_history_length, chat_history_ids, user_input,
                   chat_display, user_msg, new_input, input_ids,
                   response_start, bot_response, sends, history_before,
                   turn_start>>

(* response_start and tokenizer.decode of the slice. *)
DecodeStep ==
    /\ pc = "decode"
    /\ response_start' = ResponseStart(input_ids)
    /\ \/ /\ Raise(<<"decode failed">>)
          /\ UNCHANGED bot_response
       \/ /\ bot_response' = ExtractReply(response, ResponseStart(input_ids))
          /\ pc' = "commit"
          /\ UNCHANGED error
    /\ UNCHANGED <<max_history_length, chat_history_ids, user_input,
                   chat_display, user_msg, new_input, input_ids, response,
                   sends, history_before, turn_start>>

(* the reply shown as soon as the history is assigned *)
CommitStepReplies ==
    /\ pc = "commit"
    /\ chat_history_ids' = Tensor(response)
    /\ UpdateChat("AI", bot_response)
    /\ pc' = "enforce"
    /\ UNCHANGED <<max_history_length, user_input, locals,
                   sends, history_before, turn_start>>

(* self.chat_history_ids = response *)
CommitStep ==
    /\ pc = "commit"
    /\ chat_history_ids' = Tensor(response)
    /\ pc' = "enforce"
    /\ UNCHANGED <<max_history_length, user_input, chat_display, locals,
                   sends, history_before, turn_start>>

(* the history length limit *)
EnforceStep ==
    /\ pc = "enforce"
    /\ chat_history_ids' =
          Tensor(EnforceBudget(chat_history_ids.ids, max_history_length))
    /\ pc' = "reply"
    /\ UNCHANGED <<max_history_length, user_input, chat_display, locals,
                   sends, history_before, turn_start>>

(* self.update_chat("AI", bot_response) *)
ReplyStep ==
    /\ pc = "reply"
    /\ UpdateChat("AI", bot_response)
    /\ pc' = "idle"
    /\ UNCHANGED <<max_history_length, chat_history_ids, user_input, locals,
                   sends, history_before, turn_start>>

(* except Exception as e: self.update_chat("System", ...) *)
ExceptStep ==
    /\ pc = "except"
    /\ UpdateChat("System", <<"Error: ">> \o error)
    /\ pc' = "idle"
    /\ UNCHANGED <<max_history_length, chat_history_ids, user_input, locals,
                   sends, history_before, turn_start>>

Next ==
    \/ TypeText
    \/ SendMessageBlank
    \/ SendMessageStart
    \/ EncodeStep
    \/ GenerateStep
    \/ DecodeStep
    \/ CommitStep
    \/ EnforceStep
    \/ ReplyStep
    \/ ExceptStep

Spec == Init /\ [][Next]_vars

----------------------------------------------------------------------------
(* Vocabulary of the properties *)

TurnEmissions == SubSeq(chat_display, turn_start + 1, Len(chat_display))

TurnSenders == [i \in 1..Len(TurnEmissions) |-> TurnEmissions[i][1]]

InTurn == pc # "idle"

TurnSucceeded == pc = "idle" /\ error = NoError /\ Len(TurnEmissions) > 0

TurnFailed == pc = "idle" /\ error # NoError

NumReplies == Cardinality({i \in 2..Len(chat_display) : chat_display[i][1] = "AI"})

LastN(s, n) == [i \in 1..n |-> s[Len(s) - n + i]]

FirstN(s, n) == [i \in 1..n |-> s[i]]

IsBlank(text) == \A i \in 1..Len(text) : text[i] = Space

----------------------------------------------------------------------------
(* C1: whenever no turn is executing, a present context buffer is no longer *)
(* than max_history_length.                                                 *)
BudgetInvariant ==
    (pc = "idle" /\ chat_history_ids.present)
        => Len(chat_history_ids.ids) <= max_history_length

(* a successful turn whose generator output exceeded the budget *)
BudgetWitness ==
    /\ TurnSucceeded
    /\ history_before.present
    /\ Len(response) > max_history_length
    /\ Len(chat_history_ids.ids) <= max_history_length

FailureIsolation ==
    (pc = "except" \/ TurnFailed) => chat_history_ids = history_before

(* a failed turn that started with a context *)
FailureIsolationWitness ==
    /\ TurnFailed
    /\ history_before.present
    /\ error = <<"decode failed">>

(* C4: a send_message call on an entry that strips to empty changes neither *)
(* the context buffer nor the display and does not enter the try block      *)
(* (no encode, no generate).                                                *)
BlankNoOp ==
    [][(sends' # sends /\ IsBlank(user_input))
          => /\ chat_history_ids' = chat_history_ids
             /\ chat_display' = chat_display
             /\ pc' = "idle"
             /\ locals' = locals]_vars

(* send_message has been called on a whitespace-only entry *)
BlankWitness ==
    /\ sends > 0
    /\ pc = "idle"
    /\ user_input # <<>>
    /\ IsBlank(user_input)
    /\ Len(chat_display) = 1

(* C5: a raise never leaves send_message; a failed turn has emitted exactly *)
(* the user's message and one System message, and no AI reply.              *)
FailureContainment ==
    /\ pc # "propagated"
    /\ TurnFailed =>
          /\ TurnSenders = <<"You", "System">>
          /\ TurnEmissions[2][2] = <<"Error: ">> \o error

(* a failed turn *)
FailureContainmentWitness ==
    /\ TurnFailed
    /\ error = <<"generate failed">>

(* C6: the generation input is the encoded user turn alone when there is no *)
(* context, and the whole context followed by the encoded user turn         *)
(* otherwise.                                                               *)
ContextContinuity ==
    pc = "generate" =>
        /\ new_input = Encode(user_msg) \o <<eos_token_id>>
        /\ ~chat_history_ids.present => input_ids = new_input
        /\ chat_history_ids.present =>
              /\ Len(input_ids) = Len(chat_history_ids.ids) + Len(new_input)
              /\ FirstN(input_ids, Len(chat_history_ids.ids)) = chat_history_ids.ids
              /\ LastN(input_ids, Len(new_input)) = new_input

(* a turn that starts with a context has reached the generator *)
ContextContinuityWitness ==
    /\ pc = "generate"
    /\ chat_history_ids.present
    /\ Len(chat_history_ids.ids) >= 2

(* C7: no context before the first successful turn, a context of at least   *)
(* one token after it; a present context never becomes absent or empty, and *)
(* the failure path does not change it.                                     *)
SessionStateMachine ==
    /\ [](pc = "idle" =>
            /\ NumReplies = 0 => chat_history_ids = None
            /\ NumReplies > 0 => /\ chat_history_ids.present
                                 /\ Len(chat_history_ids.ids) >= 1)
    /\ [][/\ chat_history_ids.present =>
                /\ chat_history_ids'.present
                /\ Len(chat_history_ids'.ids) >= 1
          /\ (pc = "except" \/ pc' = "except") =>
                chat_history_ids' = chat_history_ids]_vars

(* two successful turns, the second one truncated *)
SessionStateWitness ==
    /\ NumReplies = 2
    /\ pc = "idle"
    /\ Len(response) > max_history_length
    /\ chat_history_ids.present

(* C8: the reply is the decoding of exactly the trailing k tokens of the    *)
(* generator output, k the number of tokens added to the input.             *)
SliceCorrectness ==
    (pc \in {"commit", "enforce", "reply"} \/ TurnSucceeded) =>
        LET k == Len(response) - Len(input_ids)
        IN  /\ k >= 0
            /\ FirstN(response, Len(input_ids)) = input_ids
            /\ response_start = Len(input_ids)
            /\ bot_response = Decode(LastN(response, k), TRUE)

(* a reply decoded from a non-empty continuation *)
SliceWitness ==
    /\ TurnSucceeded
    /\ Len(response) = Len(input_ids) + 2
    /\ bot_response # <<>>

(* C9: after a successful turn whose output is no longer than the budget    *)
(* the context buffer is the generator's output.                            *)
CommitWithoutTruncation ==
    (TurnSucceeded /\ Len(response) <= max_history_length)
        => chat_history_ids = Tensor(response)

(* an output exactly as long as the budget *)
CommitWitness ==
    /\ TurnSucceeded
    /\ Len(response) = max_history_length
    /\ max_history_length >= 2

(* C10: inside a turn the display holds the user's message alone until the  *)
(* turn ends; a finished turn has emitted the user's message and then one   *)
(* AI or System message; an AI message is on display only once the context  *)
(* is the budget-enforced generator output.                                 *)
EmissionOrdering ==
    /\ InTurn => TurnEmissions = << <<"You", user_msg>> >>
    /\ (pc = "idle" /\ Len(TurnEmissions) > 0) =>
          /\ Len(TurnEmissions) = 2
          /\ TurnEmissions[1] = <<"You", user_msg>>
          /\ TurnSenders[2] = (IF error = NoError THEN "AI" ELSE "System")
    /\ (Len(TurnEmissions) > 0 /\ TurnSenders[Len(TurnSenders)] = "AI") =>
          /\ pc = "idle"
          /\ chat_history_ids =
                Tensor(EnforceBudget(response, max_history_length))
          /\ TurnEmissions[Len(TurnEmissions)][2] = bot_response

(* a reply emitted after a truncating commit *)
EmissionWitness ==
    /\ TurnSucceeded
    /\ TurnSenders = <<"You", "AI">>
    /\ Len(response) > max_history_length

====
